---- MODULE Spec2Model ----
(***************************************************************************)
(* Leveled logger with a size-bounded, self-rotating file sink             *)
(* (package log: FileWriter and Logger).                                   *)
(*                                                                         *)
(* The state machines of this module:                                      *)
(*   Spec        the FileWriter, its directory and its retention task      *)
(*   LoggerSpec  the Logger: threshold, dispatch table, mutex, one caller  *)
(*               and the byte stream handed to the writer                  *)
(*   RaceSpec    the Logger with callers racing                            *)
(*   ConfigSpec  LogConfig.Writer: the choice of the Logger's writer       *)
(*   SystemSpec  NewLogger with a file config, racing callers, the         *)
(*               FileWriter underneath and its retention task              *)
(*   FormatSpec  escapeString                                              *)
(***************************************************************************)
EXTENDS Integers, Sequences, FiniteSets, TLC

(***************************************************************************)
(* Bounds of the model                                                     *)
(***************************************************************************)
MaxWrites == 2          \* Write calls made on the sink
MaxCloses == 2          \* Close calls made on the sink
NThreads == 2           \* caller threads of the Logger
MaxCalls == 2           \* calls a thread makes in sequence
MaxLen == 2             \* characters of a string handed to escapeString
ShortLen == 600000      \* a write shorter than one MB, longer than half
LongLen == 1200000      \* a write longer than one MB
PreLen == 500000        \* bytes already in the live file before the sink opens

(***************************************************************************)
(* Program constants                                                       *)
(***************************************************************************)
MBShift == 20           \* w.MaxSize << 20
ChanCap == 1            \* make(chan bool, 1)
WordBits == 64          \* width of uint and int
DQUOTE == 34            \* '"'
TILDE == 126            \* '~'
EQUALS == 61            \* '='

(***************************************************************************)
(* Machine words.  A uint or int value is the set of the positions of its  *)
(* one bits, 0 the least significant; int(x) and uint(x) keep the bits, an *)
(* int is negative when its top bit is set (two's complement).             *)
(***************************************************************************)
Bits == 0 .. (WordBits - 1)

\* The word of a number n, 0 <= n < 2^31
Word(n) == {i \in 0 .. 30 : (n \div (2 ^ i)) % 2 = 1}

\* x << k on a uint: the bits shifted past the top are lost
ShiftLeft(w, k) == {i + k : i \in {j \in w : j + k < WordBits}}

IsNegative(w) == (WordBits - 1) \in w

\* x >> k on an int: the sign bit fills the top
ShiftRight(w, k) ==
    {i - k : i \in {j \in w : j >= k}}
        \cup (IF IsNegative(w) THEN (WordBits - k) .. (WordBits - 1) ELSE {})

\* x > 0 on an int
IsPositive(w) == w # {} /\ ~IsNegative(w)

\* The number a non-negative int below 2^31 stands for
RECURSIVE ToInt(_)
ToInt(w) ==
    IF w = {} THEN 0
    ELSE LET i == CHOOSE x \in w : TRUE IN 2 ^ i + ToInt(w \ {i})

\* n > x for a number n below 2^31 and an int x
Exceeds(n, w) ==
    /\ ~IsNegative(w) => \A i \in w : i <= 30
    /\ IsNegative(w) \/ n > ToInt(w)

(***************************************************************************)
(* The directory of the log file.  A name is Base (the live path, w.Path)  *)
(* or Base followed by the RFC3339 second t of a rotation, written t.      *)
(* os.ReadDir lists by file name, and Base is a proper prefix of every     *)
(* rotated name, so the listing order is Base, then the seconds ascending. *)
(* Foreign is a name that starts with Base and was given by someone else,  *)
(* such as Base followed by ".bak": it sorts between Base and the seconds, *)
(* '.' coming before every digit.                                          *)
(***************************************************************************)
Base == -1
Unrelated == -2         \* a file of the directory whose name does not start with Base

\* Seconds of the wall clock.  Second 0 is before the sink was opened; each
\* Write may find the clock on a later second.
MaxTime == MaxWrites
Stamps == 0 .. MaxTime

\* Configured values of MaxSize (MB, as a word; 0 = no bound) and MaxFiles
\* (0 = keep all)
SizeLimits == {Word(0), Word(1)}
RetainCounts == {0, 1, 2}
Foreign == MaxTime + 1
Names == {Unrelated, Base, Foreign} \cup Stamps

\* The place of a name in the order of file names
NameKey(name) == IF name = Foreign THEN 2 * Base + 1 ELSE 2 * name

\* strings.HasPrefix(name, base)
HasPrefix(name) == name >= Base

\* A file's content: the chunks appended to it, in order.  A chunk is the
\* bytes of one Write call, [id |-> number of the call, len |-> its length];
\* id 0 is data that was there before the sink was opened.
Chunk(i, n) == [id |-> i, len |-> n]

RECURSIVE FileSize(_)
FileSize(content) ==
    IF content = <<>> THEN 0
    ELSE Head(content).len + FileSize(Tail(content))

\* The entries of a directory in os.ReadDir order (sorted by file name).
RECURSIVE SortedNames(_)
SortedNames(S) ==
    IF S = {} THEN <<>>
    ELSE LET m == CHOOSE x \in S : \A y \in S : NameKey(x) <= NameKey(y)
         IN  <<m>> \o SortedNames(S \ {m})

ReadDir(d) == SortedNames(DOMAIN d)

\* d with file n removed (os.Remove; removing a missing file is an ignored error)
RemoveFile(d, n) == [x \in (DOMAIN d) \ {n} |-> d[x]]

\* d with file n created or replaced, holding content c
PutFile(d, n, c) == [x \in (DOMAIN d) \cup {n} |-> IF x = n THEN c ELSE d[x]]

\* os.Rename(from, to): atomically replaces `to` when it exists
RenameFile(d, from, to) ==
    IF from \in DOMAIN d THEN PutFile(RemoveFile(d, from), to, d[from]) ELSE d

WriteLens == {ShortLen, LongLen}

\* Paths as token sequences; " " is white space, ".log" the extension.
Paths == {<<" ">>, <<" ", "app">>}

RECURSIVE TrimLeft(_)
TrimLeft(p) == IF p # <<>> /\ Head(p) = " " THEN TrimLeft(Tail(p)) ELSE p

RECURSIVE TrimRight(_)
TrimRight(p) ==
    IF p # <<>> /\ p[Len(p)] = " " THEN TrimRight(SubSeq(p, 1, Len(p) - 1)) ELSE p

\* strings.TrimSpace
TrimSpace(p) == TrimRight(TrimLeft(p))

\* strings.HasSuffix(p, ".log")
HasLogSuffix(p) == p # <<>> /\ p[Len(p)] = ".log"

VARIABLES
    cfg,        \* LogConfig embedded in the FileWriter: MaxSize, MaxFiles, Path
    phase,      \* "new": constructed, "ready": Init returned nil, "failed"
    size,       \* w.size
    maxSize,    \* w.maxSize
    file,       \* w.file: "nil", "open" or "closed" (a closed *os.File)
    ch,         \* w.ch: [made, len, closed]
    dir,        \* the directory: name -> content, regular files only
    now,        \* the second time.Now() returned last
    sw,         \* the removeLogs goroutine: [pc, list, idx, count]
    hist        \* what the calls made so far did and returned; unswept: a
                \* rotation renamed the live file and no listing was read since

sinkVars == <<cfg, phase, size, maxSize, file, ch, dir, now, sw, hist>>

VARIABLES
    level,      \* l.level
    handles,    \* l.Trace .. l.Error: TRUE for a wrap handle, FALSE for discard
    handleIfs,  \* l.TraceIf .. l.ErrorIf: TRUE for a wrapIf handle
    mu,         \* the Logger's sync.Mutex: 0 when unlocked, else the holder
    th,         \* the caller threads: [pc, op, lvl, k, todo]
    out,        \* the bytes handed to l.writer.Write, in order: [t, k, b]
    passed      \* calls that got past their level gate so far

logVars == <<level, handles, handleIfs, mu, th, out, passed>>

VARIABLES
    config,     \* the *LogConfig handed to NewLogger: [isNil, MaxSize, MaxFiles, Path]
    writer,     \* l.writer: "unset", "stderr" (os.Stderr) or "file" (the FileWriter)
    status,     \* the process: "running", "exit2" (os.Exit(2)) or "panic"
    fmt         \* a call of escapeString: [s, done, ret]

procVars == <<config, writer, status, fmt>>

vars == <<sinkVars, logVars, procVars>>

(***************************************************************************)
(* FileWriter                                                              *)
(***************************************************************************)
\* A nil *LogConfig
NilConfig == [isNil |-> TRUE, MaxSize |-> Word(0), MaxFiles |-> 0, Path |-> <<>>]

\* No call of escapeString made
NoCall == [s |-> <<>>, done |-> FALSE, ret |-> <<>>]

NoWrite == [len |-> 0, rotated |-> FALSE, rotErr |-> FALSE, renamed |-> FALSE,
            renameOk |-> TRUE,
            openOk |-> TRUE, n |-> 0, err |-> FALSE]

\* The files the directory may hold before the sink is opened: the
\* unrelated file, possibly a live file, empty or with data from an earlier
\* run (the file is opened O_APPEND), possibly a file an earlier run rotated
\* at second 0.
InitialDirs ==
    LET lives == {<<>>, <<<<>>>>, <<<<Chunk(0, PreLen)>>>>}
        olds  == {<<>>, <<<<Chunk(0, PreLen)>>>>}
    IN  { [n \in {Unrelated} \cup (IF l = <<>> THEN {} ELSE {Base})
                              \cup (IF o = <<>> THEN {} ELSE {0})
             |-> IF n = Base THEN l[1] ELSE IF n = 0 THEN o[1] ELSE <<>>]
          : l \in lives, o \in olds }

InitSink ==
    /\ cfg \in [MaxSize : SizeLimits, MaxFiles : RetainCounts, Path : Paths]
    /\ phase = "new"
    /\ size = 0
    /\ maxSize = Word(0)
    /\ file = "nil"
    /\ ch = [made |-> FALSE, len |-> 0, closed |-> FALSE]
    /\ dir \in InitialDirs
    /\ now = 1
    /\ sw = [pc |-> "off", list |-> <<>>, idx |-> 0, count |-> 0]
    /\ hist = [nwrites |-> 0, lastW |-> NoWrite, closes |-> <<>>, unswept |-> FALSE]

\* openFile: os.OpenFile(path, O_WRONLY|O_CREATE|O_APPEND, 0664).  ok is
\* whether the operating system grants the open.
openFile(d, ok) ==
    IF ok
    THEN [file |-> "open", err |-> FALSE,
          dir |-> IF Base \in DOMAIN d THEN d ELSE PutFile(d, Base, <<>>)]
    ELSE [file |-> "nil", err |-> TRUE, dir |-> d]

\* int(w.MaxSize << 20)
ScaledMaxSize(mb) == ShiftLeft(mb, MBShift)

\* uint(w.maxSize>>20) != w.MaxSize
SizeRejected(ms, mb) == ShiftRight(ms, MBShift) # mb

\* The body of FileWriter.Init on the FileWriter built from config c
\* (w = &FileWriter{LogConfig: c}); openOk is whether the open is granted.
InitBody(c, openOk) ==
    LET path  == TrimSpace(c.Path)
        path2 == IF HasLogSuffix(path) THEN path ELSE path \o <<".log">>
        ms    == IF c.MaxSize # {} THEN ScaledMaxSize(c.MaxSize) ELSE maxSize
        o     == openFile(dir, openOk)
        conf(pth) == [MaxSize |-> c.MaxSize, MaxFiles |-> c.MaxFiles, Path |-> pth]
    IN  IF path = <<>>
        THEN /\ phase' = "failed"
             /\ cfg' = conf(path)
             /\ UNCHANGED <<size, maxSize, file, ch, dir, sw, hist>>
        ELSE IF c.MaxSize # {} /\ SizeRejected(ms, c.MaxSize)
        THEN /\ phase' = "failed"
             /\ cfg' = conf(path2)
             /\ maxSize' = ms
             /\ UNCHANGED <<size, file, ch, dir, sw, hist>>
        ELSE /\ cfg' = conf(path2)
             /\ maxSize' = ms
             /\ file' = o.file
             /\ dir' = o.dir
             /\ phase' = IF o.err THEN "failed" ELSE "ready"
             /\ IF ~o.err /\ c.MaxFiles > 0
                THEN /\ ch' = [made |-> TRUE, len |-> 1, closed |-> FALSE]
                     /\ sw' = [sw EXCEPT !.pc = "wait"]
                ELSE UNCHANGED <<ch, sw>>
             /\ UNCHANGED <<size, hist>>

\* FileWriter.Init, reached through NewFileWriter
FwInit ==
    /\ phase = "new"
    /\ \E openOk \in BOOLEAN : InitBody(cfg, openOk)
    /\ UNCHANGED <<now, logVars, procVars>>

\* LogConfig.Writer on the config handed to NewLogger: os.Stderr for a nil
\* config or an empty path, else NewFileWriter(*c), and os.Stderr again when
\* that returns an error.
Writer ==
    /\ writer = "unset"
    /\ phase = "new"
    /\ IF config.isNil \/ config.Path = <<>>
       THEN /\ writer' = "stderr"
            /\ UNCHANGED <<cfg, phase, size, maxSize, file, ch, dir, sw, hist>>
       ELSE /\ \E openOk \in BOOLEAN : InitBody(config, openOk)
            /\ writer' = IF phase' = "ready" THEN "file" ELSE "stderr"
    /\ UNCHANGED <<now, logVars, config, status, fmt>>

\* The name a rotation at second t gives the old live file:
\* fmt.Sprintf("%s%s", w.Path, time.Now().Format(time.RFC3339))
RotatedName(t) == t

\* a send that is always dropped
SignalDropped(c) == c

\* The non-blocking send of rotate: select { case w.ch <- true: default: }
Signal(c) ==
    IF c.made /\ c.len < ChanCap THEN [c EXCEPT !.len = c.len + 1] ELSE c

\* rotate with the size counter reset before the open is known to have
\* succeeded
rotateResetsEarly(f, sz, c, d, t, renameOk, openOk, statOk) ==
    LET d1 == IF f # "nil" /\ renameOk THEN RenameFile(d, Base, RotatedName(t)) ELSE d
        c1 == IF f # "nil" THEN Signal(c) ELSE c
        o  == openFile(d1, openOk)
    IN  [file |-> o.file, err |-> o.err, dir |-> o.dir, ch |-> c1,
         renamed |-> d1 # d,
         size |-> IF o.err THEN 0 ELSE FileSize(o.dir[Base])]

\* FileWriter.rotate at second t.  renameOk, openOk, statOk are whether the
\* operating system lets os.Rename, os.OpenFile and File.Stat succeed.  The
\* results of Sync, Close and Rename are dropped by the code.
rotate(f, sz, c, d, t, renameOk, openOk, statOk) ==
    LET d1 == IF f # "nil" /\ renameOk THEN RenameFile(d, Base, RotatedName(t)) ELSE d
        c1 == IF f # "nil" THEN Signal(c) ELSE c
        o  == openFile(d1, openOk)
    IN  [file |-> o.file,
         err  |-> o.err,
         dir  |-> o.dir,
         ch   |-> c1,
         renamed |-> d1 # d,
         size |-> IF o.err THEN sz
                  ELSE IF statOk THEN FileSize(o.dir[Base]) ELSE 0]

\* File.Stat on the handle rotate has just opened succeeds.
StatOutcomes == {TRUE}

\* the rotation test without the length of the write
NeedsRotationIgnoresLen(ms, sz, n) == IsPositive(ms) /\ Exceeds(sz, ms)

\* Whether Write rotates first: w.maxSize > 0 && w.size+len(p) > w.maxSize
NeedsRotation(ms, sz, n) == IsPositive(ms) /\ Exceeds(sz + n, ms)

\* w.file.Write(p) on handle f: the bytes go to the file the handle was
\* opened on, which is the one at the live path; a nil or closed handle
\* writes nothing and returns an error.
fileWrite(f, d, id, n) ==
    IF f = "open"
    THEN [n |-> n, err |-> FALSE, dir |-> PutFile(d, Base, Append(d[Base], Chunk(id, n)))]
    ELSE [n |-> 0, err |-> TRUE, dir |-> d]

\* FileWriter.Write(p) with len(p) = n, as the call number id, when
\* time.Now() is second t
WriteResult(n, id, t, renameOk, openOk, statOk) ==
    LET rot == NeedsRotation(maxSize, size, n)
        r   == IF rot
               THEN rotate(file, size, ch, dir, t, renameOk, openOk, statOk)
               ELSE [file |-> file, err |-> FALSE, dir |-> dir, ch |-> ch,
                     renamed |-> FALSE, size |-> size]
        w   == fileWrite(r.file, r.dir, id, n)
    IN  IF r.err
        THEN [file |-> r.file, dir |-> r.dir, ch |-> r.ch, size |-> r.size,
              n |-> 0, err |-> TRUE, rotated |-> rot, rotErr |-> TRUE,
              renamed |-> r.renamed]
        ELSE [file |-> r.file, dir |-> w.dir, ch |-> r.ch,
              size |-> IF ~w.err /\ IsPositive(maxSize) THEN r.size + n ELSE r.size,
              n |-> w.n, err |-> w.err, rotated |-> rot, rotErr |-> FALSE,
              renamed |-> r.renamed]

\* What FileWriter.Write(p), len(p) = n, does to the FileWriter, the
\* directory and the clock
WriteBody(n) ==
    \E t \in now .. MaxTime,
       renameOk \in BOOLEAN, openOk \in BOOLEAN, statOk \in StatOutcomes :
        LET id  == hist.nwrites + 1
            res == WriteResult(n, id, t, renameOk, openOk, statOk)
        IN  \* the clock and the outcomes of system calls are inputs of the
            \* Write only where it reads them
            /\ ~res.rotated => t = now /\ renameOk /\ openOk
            /\ now' = t
            /\ (res.rotated /\ file = "nil") => t = now /\ renameOk
            /\ file' = res.file
            /\ dir' = res.dir
            /\ ch' = res.ch
            /\ size' = res.size
            /\ hist' = [hist EXCEPT
                   !.nwrites = id,
                   !.lastW = [len |-> n, rotated |-> res.rotated, rotErr |-> res.rotErr,
                              renamed |-> res.renamed,
                              renameOk |-> renameOk, openOk |-> openOk,
                              n |-> res.n, err |-> res.err],
                   !.unswept = @ \/ res.renamed]

\* A caller of the FileWriter calls Write
Write ==
    /\ phase = "ready"
    /\ hist.nwrites < MaxWrites
    /\ \E n \in WriteLens : WriteBody(n)
    /\ UNCHANGED <<cfg, phase, maxSize, sw, logVars, procVars>>

\* f.Close() on handle f: nil error the first time, ErrClosed afterwards
fileClose(f) == [file |-> "closed", err |-> f # "open"]

\* FileWriter.Close
CloseResult(f) == IF f # "nil" THEN fileClose(f) ELSE [file |-> f, err |-> FALSE]

Close ==
    /\ phase = "ready"
    /\ Len(hist.closes) < MaxCloses
    /\ LET res == CloseResult(file)
       IN  /\ file' = res.file
           /\ hist' = [hist EXCEPT !.closes = Append(@, res.err)]
    /\ UNCHANGED <<cfg, phase, size, maxSize, ch, dir, now, sw, logVars, procVars>>

(***************************************************************************)
(* The retention task: go w.removeLogs()                                   *)
(***************************************************************************)
\* for range w.ch: takes a signal, or leaves the loop once the channel is
\* closed and drained.
SweepWake ==
    /\ sw.pc = "wait"
    /\ ch.len > 0 \/ ch.closed
    /\ IF ch.len > 0
       THEN /\ ch' = [ch EXCEPT !.len = ch.len - 1]
            /\ sw' = [sw EXCEPT !.pc = "list"]
       ELSE /\ sw' = [sw EXCEPT !.pc = "exited"]
            /\ UNCHANGED ch
    /\ UNCHANGED <<cfg, phase, size, maxSize, file, dir, now, hist, logVars, procVars>>

\* list, err := os.ReadDir(dir); count := 0; idx := len(list) - 1
SweepList ==
    /\ sw.pc = "list"
    /\ LET list == ReadDir(dir)
       IN  sw' = [pc |-> IF list = <<>> THEN "wait" ELSE "scan",
                  list |-> list, idx |-> Len(list), count |-> 0]
    /\ hist' = [hist EXCEPT !.unswept = FALSE]
    /\ UNCHANGED <<cfg, phase, size, maxSize, file, ch, dir, now, logVars, procVars>>

\* Whether the entry counts: list[idx].Type().IsRegular() && HasPrefix(name, base)
Counts(name) == HasPrefix(name)

\* the removal test without the guard on the live name
RemovesAnyName(count, name) == count > cfg.MaxFiles

\* the removal test that also removes the entry that reaches the count
RemovesAtCount(count, name) == count >= cfg.MaxFiles /\ name # Base

\* Whether the entry is removed: count > w.MaxFiles && name != base
Removes(count, name) == count > cfg.MaxFiles /\ name # Base

\* One iteration of the loop over the listing, from its end to its start.
SweepStep ==
    /\ sw.pc = "scan"
    /\ LET name  == sw.list[sw.idx]
           count == IF Counts(name) THEN sw.count + 1 ELSE sw.count
       IN  /\ dir' = IF Counts(name) /\ Removes(count, name)
                     THEN RemoveFile(dir, name) ELSE dir
           /\ sw' = IF sw.idx = 1
                    THEN [pc |-> "wait", list |-> <<>>, idx |-> 0, count |-> 0]
                    ELSE [sw EXCEPT !.idx = sw.idx - 1, !.count = count]
    /\ UNCHANGED <<cfg, phase, size, maxSize, file, ch, now, hist, logVars, procVars>>

(***************************************************************************)
(* Logger                                                                  *)
(***************************************************************************)
TRACE == 0
DEBUG == 1
VERBOSE == 2
INFO == 3
WARN == 4
ERROR == 5

\* Levels[level] is LevelNames[level + 1]
LevelNames == <<"TRACE", "DEBUG", "VERBO", "INFO", "WARN", "ERROR">>

ValidLevels == TRACE .. ERROR

\* func stringifyLevel(level Level) string { return Levels[level] }
stringifyLevel(lv) == LevelNames[lv + 1]

NL == "\n"

Threads == 1 .. NThreads

\* Operations whose first statement is the gate `if level < l.level { return }`
GatedOps == {"Log", "Output", "Outputf", "Println", "Logf", "Json", "Dump"}
\* Those of them that call stringifyLevel(level) once past the gate
StringifyOps == {"Log", "Println", "Logf"}
\* Operations that end with os.Exit(2)
FatalOps == {"Fatal", "Assert"}
\* Calls through the dispatch table: l.Trace .. l.Error, l.TraceIf .. l.ErrorIf
HandleOps == {"Handle", "HandleIf"}

\* Levels passed to logging calls and targets passed to SetLevel when one
\* thread makes its calls in sequence; levels passed when threads race
CallLevels == (TRACE - 1) .. (ERROR + 1)
Targets == (TRACE - 1) .. (ERROR + 1)
RaceLevels == {DEBUG, WARN}
\* Operations, levels and SetLevel targets of the threads that race on a
\* Logger with a file sink: an operation of one writer.Write and one of two,
\* a level the initial threshold lets through, the highest threshold and an
\* invalid target
SystemOps == {"Log", "Output"}
SystemLevels == {WARN}
SystemTargets == {ERROR, ERROR + 1}

\* The bytes a call formats, as tokens; messages hold no newline of their
\* own.  Log and the handles format the whole line, newline included
\* (Logger.write); the others format a payload that Logger.Write follows
\* with a newline of its own.
Line(name) == <<name, "msg", NL>>

Payload(op, lv) ==
    CASE op = "Output"  -> <<"msg">>
      [] op = "Outputf" -> <<"fmt">>
      [] op = "Println" -> <<stringifyLevel(lv), "args">>
      [] op = "Logf"    -> <<stringifyLevel(lv), "fmt">>
      [] op = "Json"    -> <<"json">>
      [] op = "Dump"    -> <<"indented">>

Diagnostic == <<"Invalid log level, will use INFO by default.">>

\* StackInfo(9, msg, args...): "FATAL[time] msg", a newline, the stack trace
StackInfo == <<"FATAL", "msg", NL, "stack">>

\* Levels[level] is in range
IndexOk(lv) == (lv + 1) \in DOMAIN LevelNames

\* The level Fatal and a failed Assert pass to l.Output
FatalLevelInfo == INFO

FatalLevel == ERROR

\* The writer.Write calls a call makes once it holds the mutex:
\* Logger.write makes one, Logger.Write(bytes, true) makes two.
WritesOf(op, lv) ==
    IF op \in {"Log"} \cup HandleOps
    THEN <<Line(stringifyLevel(lv))>>
    ELSE IF op \in FatalOps THEN <<StackInfo, <<NL>>>>
    ELSE <<Payload(op, lv), <<NL>>>>

\* Everything a call hands to the writer
Record(op, lv) ==
    IF op \in {"Log"} \cup HandleOps
    THEN Line(stringifyLevel(lv))
    ELSE IF op \in FatalOps THEN StackInfo \o <<NL>>
    ELSE Payload(op, lv) \o <<NL>>

\* the gate with <= for <
GateOffByOne(lv, threshold) == ~(lv <= threshold)

\* The gate of every leveled operation: the call goes on unless level < l.level
GatePasses(lv, threshold) == ~(lv < threshold)

\* the table with > for >=
TableForStrict(target) == [i \in ValidLevels |-> i > target]

\* The dispatch table SetLevel builds: handle i is active iff Level(i) >= target
TableFor(target) == [i \in ValidLevels |-> i >= target]

\* A thread between calls.  During a call: op the operation, lvl its level
\* (for SetLevel the local variable target), arg the level or target as the
\* caller passed it (for Assert and the conditional handles 1 when the
\* condition passed is true, else 0), k the number of the call, todo the
\* writer.Write calls still to make.
Idle == [pc |-> "idle", op |-> "none", lvl |-> 0, arg |-> 0, k |-> 0, todo |-> <<>>]

Running == status = "running"

\* The state NewLogger leaves: SetLevel(INFO) has run, nothing is written.
InitLogger ==
    /\ level = INFO
    /\ handles = TableFor(INFO)
    /\ handleIfs = TableFor(INFO)
    /\ mu = 0
    /\ th = [t \in Threads |-> Idle]
    /\ out = <<>>
    /\ passed = 0

\* Thread t, which makes at most max calls, calls a gated operation of ops
\* at a level of lvs.
CallGated(t, ops, lvs, max) ==
    /\ Running
    /\ th[t].pc = "idle"
    /\ th[t].k < max
    /\ \E op \in ops, lv \in lvs :
        LET go    == GatePasses(lv, level)
            \* stringifyLevel indexes the array Levels: out of range, the
            \* run time panics
            fault == go /\ op \in StringifyOps /\ ~IndexOk(lv)
        IN  /\ th' = [th EXCEPT ![t] =
                        [pc |-> IF fault THEN "panic" ELSE IF go THEN "lock" ELSE "idle",
                         op |-> op, lvl |-> lv, arg |-> lv,
                         k |-> th[t].k + 1,
                         todo |-> IF go /\ ~fault THEN WritesOf(op, lv) ELSE <<>>]]
            /\ passed' = IF go /\ ~fault THEN passed + 1 ELSE passed
            /\ status' = IF fault THEN "panic" ELSE status
    /\ UNCHANGED <<level, handles, handleIfs, mu, out, sinkVars, config, writer, fmt>>

\* Thread t calls the handle or the conditional handle of level lv; discard
\* and discardIf return at once, and a wrapIf handle writes only when ok.
CallHandle(t, lvs, max) ==
    /\ Running
    /\ th[t].pc = "idle"
    /\ th[t].k < max
    /\ \E op \in HandleOps, lv \in lvs, ok \in BOOLEAN :
        LET go == IF op = "Handle" THEN handles[lv] ELSE handleIfs[lv] /\ ok
        IN  /\ op = "Handle" => ok
            /\ th' = [th EXCEPT ![t] =
                        [pc |-> IF go THEN "lock" ELSE "idle", op |-> op, lvl |-> lv,
                         arg |-> IF ok THEN 1 ELSE 0,
                         k |-> th[t].k + 1,
                         todo |-> IF go THEN WritesOf(op, lv) ELSE <<>>]]
            /\ passed' = IF go THEN passed + 1 ELSE passed
    /\ UNCHANGED <<level, handles, handleIfs, mu, out, sinkVars, procVars>>

\* the range test of SetLevel without its lower end
InvalidTargetAboveOnly(target) == target > 5

\* if target < 0 || target > 5
InvalidTarget(target) == target < 0 \/ target > 5

\* Thread t calls Fatal, or Assert with the condition check.  Assert returns
\* at once when check is true; otherwise the line goes out through
\* l.Output(ERROR, StackInfo(...)) and os.Exit(2) follows.
CallFatal(t, max) ==
    /\ Running
    /\ th[t].pc = "idle"
    /\ th[t].k < max
    /\ \E op \in FatalOps, check \in BOOLEAN :
        LET go == ~check /\ GatePasses(FatalLevel, level)
        IN  /\ op = "Fatal" => ~check
            /\ th' = [th EXCEPT ![t] =
                        [pc |-> IF check THEN "idle" ELSE IF go THEN "lock" ELSE "exit",
                         op |-> op, lvl |-> FatalLevel,
                         arg |-> IF check THEN 1 ELSE 0,
                         k |-> th[t].k + 1,
                         todo |-> IF go THEN WritesOf(op, FatalLevel) ELSE <<>>]]
            /\ passed' = IF go THEN passed + 1 ELSE passed
    /\ UNCHANGED <<level, handles, handleIfs, mu, out, sinkVars, procVars>>

\* os.Exit(2)
OsExit(t) ==
    /\ Running
    /\ th[t].pc = "exit"
    /\ th' = [th EXCEPT ![t].pc = "exited"]
    /\ status' = "exit2"
    /\ UNCHANGED <<level, handles, handleIfs, mu, out, passed, sinkVars,
                   config, writer, fmt>>

\* Thread t calls SetLevel(target).  An invalid target becomes INFO and the
\* diagnostic goes out through l.Output(ERROR, ...) before the assignment.
CallSetLevel(t, tgts, max) ==
    /\ Running
    /\ th[t].pc = "idle"
    /\ th[t].k < max
    /\ \E target \in tgts :
        LET bad == InvalidTarget(target)
            go  == bad /\ GatePasses(ERROR, level)
        IN  /\ th' = [th EXCEPT ![t] =
                        [pc |-> IF go THEN "lock" ELSE "set", op |-> "SetLevel",
                         lvl |-> IF bad THEN INFO ELSE target,
                         arg |-> target,
                         k |-> th[t].k + 1,
                         todo |-> IF go THEN <<Diagnostic, <<NL>>>> ELSE <<>>]]
            /\ passed' = IF go THEN passed + 1 ELSE passed
    /\ UNCHANGED <<level, handles, handleIfs, mu, out, sinkVars, procVars>>

\* a Lock that does not wait for the holder
LockFree(m) == TRUE

\* sync.Mutex.Lock returns once the mutex is unlocked
CanLock(m) == m = 0

\* l.Lock()
Lock(t) ==
    /\ Running
    /\ th[t].pc = "lock"
    /\ CanLock(mu)
    /\ mu' = t
    /\ th' = [th EXCEPT ![t].pc = "write"]
    /\ UNCHANGED <<level, handles, handleIfs, out, passed, sinkVars, procVars>>

\* The bytes of one writer.Write call, tagged with the call that made it
Tagged(t, k, bytes) == [i \in 1 .. Len(bytes) |-> [t |-> t, k |-> k, b |-> bytes[i]]]

\* l.writer.Write(...): the next write of the call goes out
WriterWrite(t) ==
    /\ Running
    /\ th[t].pc = "write"
    /\ th[t].todo # <<>>
    /\ out' = out \o Tagged(t, th[t].k, Head(th[t].todo))
    /\ th' = [th EXCEPT ![t].todo = Tail(th[t].todo)]
    /\ UNCHANGED <<level, handles, handleIfs, mu, passed, sinkVars, procVars>>

\* len(p) of a writer.Write call: 1 for the newline Logger.Write adds, the
\* length of the message otherwise
LensOf(bytes) == IF bytes = <<NL>> THEN {1} ELSE {ShortLen}

\* l.writer.Write(...) when the writer is the FileWriter: the next write of
\* the call goes through FileWriter.Write, whose results the Logger drops
SinkWrite(t) ==
    /\ Running
    /\ writer = "file"
    /\ th[t].pc = "write"
    /\ th[t].todo # <<>>
    /\ \E n \in LensOf(Head(th[t].todo)) : WriteBody(n)
    /\ out' = out \o Tagged(t, th[t].k, Head(th[t].todo))
    /\ th' = [th EXCEPT ![t].todo = Tail(th[t].todo)]
    /\ UNCHANGED <<cfg, phase, maxSize, sw, level, handles, handleIfs, mu, passed, procVars>>

\* an Unlock that leaves the mutex held
ReleaseNever(m, t) == m

\* sync.Mutex.Unlock: the mutex is free again
Release(m, t) == IF m = t THEN 0 ELSE m

\* l.Unlock(), after which a logging call returns and SetLevel goes on
Unlock(t) ==
    /\ Running
    /\ th[t].pc = "write"
    /\ th[t].todo = <<>>
    /\ mu' = Release(mu, t)
    /\ th' = [th EXCEPT ![t].pc = IF th[t].op = "SetLevel" THEN "set"
                                  ELSE IF th[t].op \in FatalOps THEN "exit"
                                  ELSE "idle"]
    /\ UNCHANGED <<level, handles, handleIfs, out, passed, sinkVars, procVars>>

\* SetLevel: l.level = target, then both tables are rebuilt
SetLevelAssign(t) ==
    /\ Running
    /\ th[t].pc = "set"
    /\ level' = th[t].lvl
    /\ handles' = TableFor(th[t].lvl)
    /\ handleIfs' = TableFor(th[t].lvl)
    /\ th' = [th EXCEPT ![t].pc = "idle"]
    /\ UNCHANGED <<mu, out, passed, sinkVars, procVars>>

\* One thread makes up to MaxCalls calls, one after the other.
LoggerNext ==
    \/ CallGated(1, GatedOps, CallLevels, MaxCalls)
    \/ CallHandle(1, ValidLevels, MaxCalls)
    \/ CallSetLevel(1, Targets, MaxCalls)
    \/ CallFatal(1, MaxCalls)
    \/ OsExit(1)
    \/ Lock(1)
    \/ WriterWrite(1)
    \/ Unlock(1)
    \/ SetLevelAssign(1)

\* Every thread makes one logging call, all at the same time.
RaceNext ==
    \E t \in Threads :
        \/ CallGated(t, GatedOps, RaceLevels, 1)
        \/ CallHandle(t, RaceLevels, 1)
        \/ Lock(t)
        \/ WriterWrite(t)
        \/ Unlock(t)

\* The Logger with its caller threads; the sink stays as constructed.
InitSinkFixed ==
    /\ cfg = [MaxSize |-> Word(0), MaxFiles |-> 0, Path |-> <<>>]
    /\ phase = "new"
    /\ size = 0
    /\ maxSize = Word(0)
    /\ file = "nil"
    /\ ch = [made |-> FALSE, len |-> 0, closed |-> FALSE]
    /\ dir = [n \in {Unrelated} |-> <<>>]
    /\ now = 1
    /\ sw = [pc |-> "off", list |-> <<>>, idx |-> 0, count |-> 0]
    /\ hist = [nwrites |-> 0, lastW |-> NoWrite, closes |-> <<>>, unswept |-> FALSE]

\* The process around a Logger made by NewLogger(nil): it writes to os.Stderr.
InitProc ==
    /\ config = NilConfig
    /\ writer = "stderr"
    /\ status = "running"
    /\ fmt = NoCall

LoggerInit == InitSinkFixed /\ InitLogger /\ InitProc

LoggerSpec == LoggerInit /\ [][LoggerNext]_vars

RaceSpec == LoggerInit /\ [][RaceNext]_vars

(***************************************************************************)
(* The whole program: NewLogger(config) with a file config, then threads   *)
(* that log and set the level while the retention task runs.               *)
(***************************************************************************)
SystemConfigs ==
    [isNil : {FALSE}, MaxSize : {Word(1)}, MaxFiles : {1}, Path : {<<"app">>}]

SystemInit ==
    /\ InitSinkFixed
    /\ InitLogger
    /\ config \in SystemConfigs
    /\ writer = "unset"
    /\ status = "running"
    /\ fmt = NoCall

\* Thread t calls a logging operation, or SetLevel, on the Logger that
\* NewLogger returned
LogCall(t) == writer # "unset" /\ CallGated(t, SystemOps, SystemLevels, 1)

LevelCall(t) == writer # "unset" /\ CallSetLevel(t, SystemTargets, 1)

\* l.writer.Write(...) when the writer is os.Stderr
StderrWrite(t) == writer = "stderr" /\ WriterWrite(t)

SystemNext ==
    \/ Writer
    \/ \E t \in Threads :
        \/ LogCall(t)
        \/ LevelCall(t)
        \/ Lock(t)
        \/ StderrWrite(t)
        \/ SinkWrite(t)
        \/ Unlock(t)
        \/ SetLevelAssign(t)
    \/ SweepWake
    \/ SweepList
    \/ SweepStep

SystemSpec == SystemInit /\ [][SystemNext]_vars

\* The steps thread t takes inside a call it has made
ThreadRun(t) ==
    Lock(t) \/ StderrWrite(t) \/ SinkWrite(t) \/ Unlock(t) \/ SetLevelAssign(t)

\* The scheduler runs every thread that can run, and the retention task.
FairSystemSpec ==
    /\ SystemSpec
    /\ \A t \in Threads : WF_vars(ThreadRun(t))
    /\ WF_vars(SweepWake \/ SweepList \/ SweepStep)

(***************************************************************************)
(* Records: one thread's calls that hand the writer a payload and then a   *)
(* newline, with payloads shorter and longer than the sink's size bound.   *)
(***************************************************************************)
\* The operations that call l.Write(bytes, true)
RecordOps == GatedOps \ {"Log"}

\* len(p) of a writer.Write call: 1 for the newline, any length for a payload
RecordLens(bytes) == IF bytes = <<NL>> THEN {1} ELSE WriteLens

\* Thread t calls Output, Outputf, Println, Logf, Json or Dump
RecordCall(t) == writer = "file" /\ CallGated(t, RecordOps, SystemLevels, MaxCalls)

\* l.writer.Write(bytes) and l.writer.Write([]byte("\n")) of Logger.Write on
\* the FileWriter
RecordWrite(t) ==
    /\ Running
    /\ writer = "file"
    /\ th[t].pc = "write"
    /\ th[t].todo # <<>>
    /\ \E n \in RecordLens(Head(th[t].todo)) : WriteBody(n)
    /\ out' = out \o Tagged(t, th[t].k, Head(th[t].todo))
    /\ th' = [th EXCEPT ![t].todo = Tail(th[t].todo)]
    /\ UNCHANGED <<cfg, phase, maxSize, sw, level, handles, handleIfs, mu, passed, procVars>>

RecordNext ==
    \/ Writer
    \/ RecordCall(1)
    \/ Lock(1)
    \/ RecordWrite(1)
    \/ Unlock(1)
    \/ SweepWake
    \/ SweepList
    \/ SweepStep

RecordSpec == SystemInit /\ [][RecordNext]_vars

\* Values of MaxSize across the width of a uint: the words made of whole
\* runs of bits, the runs cut where the scaled value reaches the sign bit
\* and where it leaves the word.
SizeRuns ==
    LET edge == WordBits - MBShift - 1
    IN  {{0}, 1 .. (edge - 1), {edge}, (edge + 1) .. (WordBits - 2), {WordBits - 1}}

WideSizes == {UNION R : R \in SUBSET SizeRuns}

ConfigPaths == Paths \cup {<<>>, <<"app", ".log">>}

Configs ==
    {NilConfig} \cup [isNil : {FALSE}, MaxSize : WideSizes,
                      MaxFiles : RetainCounts, Path : ConfigPaths]

\* NewLogger(config) is about to ask the config for its writer.
InitConfig ==
    /\ config \in Configs
    /\ writer = "unset"
    /\ status = "running"
    /\ fmt = NoCall

ConfigInit == InitSinkFixed /\ InitLogger /\ InitConfig

ConfigNext == Writer

ConfigSpec == ConfigInit /\ [][ConfigNext]_vars

(***************************************************************************)
(* Value formatting: escapeString.  A string is the sequence of the code   *)
(* points `for _, r := range s` yields.                                    *)
(***************************************************************************)
\* tab, space, '!', '"', '#', '=', 'a', '~', DEL, U+00E9
Chars == {9, 32, 33, DQUOTE, 35, EQUALS, 97, TILDE, 127, 233}

Strings == UNION {[1 .. n -> Chars] : n \in 0 .. MaxLen}

\* strconv.Quote on one code point: '"' and '\' get a backslash, printable
\* ones stay, tab becomes \t, other control characters \x and two hex digits
QuoteRune(r) ==
    IF r = DQUOTE \/ r = 92 THEN <<92, r>>
    ELSE IF r = 9 THEN <<92, 116>>
    ELSE IF r < 32 \/ r = 127 THEN <<92, 120, 48 + (r \div 16), IF r % 16 < 10 THEN 48 + (r % 16) ELSE 87 + (r % 16)>>
    ELSE <<r>>

RECURSIVE QuoteBody(_)
QuoteBody(str) ==
    IF str = <<>> THEN <<>> ELSE QuoteRune(Head(str)) \o QuoteBody(Tail(str))

\* strconv.Quote(s)
Quote(str) == <<DQUOTE>> \o QuoteBody(str) \o <<DQUOTE>>

\* the test of escapeString without the equal sign
NeedsQuotingNoEquals(r) == r <= DQUOTE \/ r > TILDE

\* r <= '"' || r > '~' || r == '='
NeedsQuoting(r) == r <= DQUOTE \/ r > TILDE \/ r = EQUALS

escapeString(str) ==
    IF \E i \in 1 .. Len(str) : NeedsQuoting(str[i]) THEN Quote(str) ELSE str

\* A call of escapeString on the string of fmt
CallEscapeString ==
    /\ ~fmt.done
    /\ fmt' = [fmt EXCEPT !.done = TRUE, !.ret = escapeString(fmt.s)]
    /\ UNCHANGED <<sinkVars, logVars, config, writer, status>>

InitFormat ==
    /\ config = NilConfig
    /\ writer = "stderr"
    /\ status = "running"
    /\ fmt \in {[s |-> x, done |-> FALSE, ret |-> <<>>] : x \in Strings}

FormatInit == InitSinkFixed /\ InitLogger /\ InitFormat

FormatNext == CallEscapeString

FormatSpec == FormatInit /\ [][FormatNext]_vars

Next ==
    \/ FwInit
    \/ Write
    \/ Close
    \/ SweepWake
    \/ SweepList
    \/ SweepStep

\* A FileWriter made by NewFileWriter directly, outside any Logger.
InitDirect ==
    /\ config = NilConfig
    /\ writer = "unset"
    /\ status = "running"
    /\ fmt = NoCall

Init == InitSink /\ InitLogger /\ InitDirect

Spec == Init /\ [][Next]_vars

\* A sink with a size bound and a retention count, about to be opened on a
\* directory of dirs.
RetainingSink(dirs) ==
    /\ cfg \in [MaxSize : {Word(1)}, MaxFiles : RetainCounts \ {0}, Path : {<<"app">>}]
    /\ phase = "new"
    /\ size = 0
    /\ maxSize = Word(0)
    /\ file = "nil"
    /\ ch = [made |-> FALSE, len |-> 0, closed |-> FALSE]
    /\ dir \in dirs
    /\ now = 1
    /\ sw = [pc |-> "off", list |-> <<>>, idx |-> 0, count |-> 0]
    /\ hist = [nwrites |-> 0, lastW |-> NoWrite, closes |-> <<>>, unswept |-> FALSE]
    /\ InitLogger
    /\ InitDirect

\* The directory holds a file, put there by someone else, whose name starts
\* with the base name.
ForeignDirs == { PutFile(d, Foreign, <<>>) : d \in InitialDirs }

ForeignInit == RetainingSink(ForeignDirs)

ForeignSpec == ForeignInit /\ [][Next]_vars

\* The retention task is a goroutine: the scheduler runs it when it can run.
\* A sink with a retention count that is never closed: Init, Writes and the
\* retention task, which the scheduler runs whenever it can run.
OpenInit == RetainingSink(InitialDirs)

OpenNext == FwInit \/ Write \/ SweepWake \/ SweepList \/ SweepStep

FairOpenSpec ==
    /\ OpenInit /\ [][OpenNext]_vars
    /\ WF_vars(SweepWake) /\ WF_vars(SweepList) /\ WF_vars(SweepStep)

FairSpec == Spec /\ WF_vars(SweepWake) /\ WF_vars(SweepList) /\ WF_vars(SweepStep)

TypeOK ==
    /\ phase \in {"new", "ready", "failed"}
    /\ file \in {"nil", "open", "closed"}
    /\ ch.len \in 0 .. ChanCap
    /\ DOMAIN dir \subseteq Names
    /\ now \in 1 .. MaxTime
    /\ sw.pc \in {"off", "wait", "list", "scan", "exited"}

(***************************************************************************)
(* Properties of the file sink                                             *)
(***************************************************************************)
\* Files of the directory whose name starts with the base file name
LogFiles == {n \in DOMAIN dir : HasPrefix(n)}

\* A step of Write / of the retention task's loop over the listing
IsWriteStep == hist'.nwrites = hist.nwrites + 1
IsSweepStep == sw.pc = "scan" /\ sw' # sw

\* C1: with a size bound M > 0, after any Write calls the live file holds at
\* most M bytes unless it holds a single write that is itself longer than M.
C1_LiveFileWithinBound ==
    ( /\ phase = "ready"
      /\ IsPositive(maxSize)
      /\ hist.nwrites >= 1
      /\ Base \in DOMAIN dir
      /\ \A i \in 1 .. Len(dir[Base]) : dir[Base][i].len <= ToInt(maxSize) )
    => FileSize(dir[Base]) <= ToInt(maxSize)

\* C2: with retention count N > 0, once a Write has renamed the live file,
\* reopened it and written without error, and the retention sweep has settled (no pending signal, task
\* idle), the directory holds at most N files prefixed by the base name, the
\* live file included.
C2_AtMostMaxFilesWhenSettled ==
    ( /\ phase = "ready"
      /\ cfg.MaxFiles > 0
      /\ file = "open"
      /\ hist.lastW.renamed
      /\ ~hist.lastW.err
      /\ ch.len = 0
      /\ sw.pc = "wait" )
    => Cardinality(LogFiles) <= cfg.MaxFiles

\* C3: no step of the retention sweep removes or changes the file at the
\* live path, whatever the retention count and the number of matching files.
C3_SweepKeepsLiveFile ==
    [][ (IsSweepStep /\ Base \in DOMAIN dir)
        => (Base \in DOMAIN dir' /\ dir'[Base] = dir[Base]) ]_vars

\* The sweep has just passed the live file with the count beyond MaxFiles,
\* and the live file is still there.
C3_Witness ==
    /\ sw.pc = "scan"
    /\ sw.list[sw.idx] = Unrelated
    /\ sw.count > cfg.MaxFiles
    /\ Base \in DOMAIN dir

\* C6: a second Close, after a first Close that returned no error, returns
\* no error.
C6_SecondCloseSucceeds ==
    (Len(hist.closes) >= 2 /\ ~hist.closes[1]) => ~hist.closes[2]

\* C7: a Write whose rotation fails returns an error with count 0, appends
\* no bytes to any file (every file afterwards has the content some file had
\* before) and leaves the size counter unchanged.
C7_FailedRotationWritesNothing ==
    [][ (IsWriteStep /\ hist'.lastW.rotated /\ hist'.lastW.rotErr)
        => /\ hist'.lastW.err
           /\ hist'.lastW.n = 0
           /\ size' = size
           /\ \A f \in DOMAIN dir' : \E g \in DOMAIN dir : dir'[f] = dir[g] ]_vars

\* A Write of a bounded sink has just returned after its rotation failed.
C7_Witness ==
    /\ hist.nwrites >= 1
    /\ hist.lastW.rotated
    /\ hist.lastW.rotErr
    /\ size > 0

\* C8: when the rename of a rotation fails, the Write that triggered the
\* rotation returns an error and appends nothing.
C8_RenameFailureSurfaced ==
    (hist.lastW.rotated /\ ~hist.lastW.renameOk)
    => (hist.lastW.err /\ hist.lastW.n = 0)

\* The sink was opened on an empty file and one write of at most M bytes has
\* been made, without a rotation.
C9_Precondition ==
    /\ phase = "ready"
    /\ IsPositive(maxSize)
    /\ file = "open"
    /\ hist.nwrites = 1
    /\ ~hist.lastW.rotated
    /\ hist.lastW.len <= ToInt(maxSize)
    /\ Base \in DOMAIN dir
    /\ dir[Base] = <<Chunk(1, hist.lastW.len)>>

\* C9: on a sink opened on an empty file with bound M, a first write of a
\* bytes did not rotate; a second write of b bytes, a <= M, b <= M,
\* a + b > M, whose system calls succeed, rotates once before it writes:
\* afterwards the rotated file holds exactly the first write, the live file
\* exactly the second, and the size counter is b.
C9_RotationBetweenTwoWrites ==
    [][ ( /\ C9_Precondition
          /\ IsWriteStep
          /\ hist'.lastW.len <= ToInt(maxSize)
          /\ hist.lastW.len + hist'.lastW.len > ToInt(maxSize)
          /\ hist'.lastW.renameOk
          /\ hist'.lastW.openOk )
        => /\ hist'.lastW.rotated
           /\ ~hist'.lastW.err
           /\ RotatedName(now') \in DOMAIN dir'
           /\ dir'[RotatedName(now')] = <<Chunk(1, hist.lastW.len)>>
           /\ dir'[Base] = <<Chunk(2, hist'.lastW.len)>>
           /\ size' = hist'.lastW.len ]_vars

\* The second of two short writes has returned after rotating.
C9_Witness ==
    /\ hist.nwrites = 2
    /\ hist.lastW.rotated
    /\ ~hist.lastW.err
    /\ hist.lastW.len = ShortLen
    /\ size = ShortLen
    /\ dir[Base] = <<Chunk(2, ShortLen)>>
    /\ \E t \in Stamps : t \in DOMAIN dir /\ dir[t] = <<Chunk(1, ShortLen)>>

\* C10: once Close has returned on a sink that started the retention task,
\* the task eventually leaves its receive loop.
C10_TaskExitsAfterClose ==
    (Len(hist.closes) >= 1 /\ ch.made) ~> (sw.pc = "exited")

\* Sweeps the retention task is executing (between its wake-up and the end
\* of its loop over the listing)
SweepsInFlight == IF sw.pc \in {"list", "scan"} THEN 1 ELSE 0

\* C11: the sweeps executing plus the signals queued in the wake-up channel
\* never exceed one.
C11_AtMostOneSweepInFlightOrPending == SweepsInFlight + ch.len <= 1

\* The scaled value of a MaxSize does not fit a positive int
Overflows(mb) == \E i \in mb : i + MBShift >= WordBits - 1

\* C14: once NewLogger has its writer, the writer is os.Stderr when the
\* config is nil, the path is empty or blank, the size bound is invalid (its
\* scaled value does not fit) or the file could not be opened; and it is the
\* file sink only when Init returned no error.
C14_FallbackToStderr ==
    writer # "unset"
    => /\ writer \in {"stderr", "file"}
       /\ ( \/ config.isNil
            \/ TrimSpace(config.Path) = <<>>
            \/ Overflows(config.MaxSize)
            \/ file # "open" ) => writer = "stderr"
       /\ writer = "file" => phase = "ready"

\* C15: when Init has accepted a MaxSize > 0, the byte bound is positive and
\* is MaxSize * 2^20 with no bit lost.
C15_BoundExactOrRejected ==
    (phase = "ready" /\ cfg.MaxSize # {})
    => /\ IsPositive(maxSize)
       /\ ~Overflows(cfg.MaxSize)
       /\ maxSize = {i + MBShift : i \in cfg.MaxSize}

(***************************************************************************)
(* Properties of the Logger                                                *)
(***************************************************************************)
\* The bytes call k of thread t has handed to the writer
RECURSIVE BytesOf(_, _, _)
BytesOf(o, t, k) ==
    IF o = <<>> THEN <<>>
    ELSE IF Head(o).t = t /\ Head(o).k = k
         THEN <<Head(o).b>> \o BytesOf(Tail(o), t, k)
         ELSE BytesOf(Tail(o), t, k)

Newlines(bytes) == {i \in 1 .. Len(bytes) : bytes[i] = NL}

\* C4: a call to Log, Output, Outputf, Println, Logf, Json or Dump at a level
\* of TRACE..ERROR has written nothing when it returns if its level is below
\* the threshold the SetLevel calls left, and otherwise exactly its record,
\* which ends with its only newline.
C4_LevelGating ==
    \A t \in Threads :
        (th[t].pc = "idle" /\ th[t].op \in GatedOps /\ th[t].lvl \in ValidLevels)
        => LET w == BytesOf(out, t, th[t].k)
           IN  IF th[t].lvl < level
               THEN w = <<>>
               ELSE /\ w = Record(th[t].op, th[t].lvl)
                    /\ Newlines(w) = {Len(w)}

\* After a SetLevel call moved the threshold off INFO, a Dump at exactly the
\* threshold has returned with its record written.
C4_Witness ==
    /\ th[1].pc = "idle"
    /\ th[1].op = "Dump"
    /\ th[1].k = 2
    /\ level # INFO
    /\ th[1].lvl = level
    /\ BytesOf(out, 1, 2) # <<>>

\* C5: the calls of racing threads that pass their gate each produce one
\* complete line: in the stream handed to the writer, a byte that is not a
\* newline is followed by a byte of the same call, and once every call has
\* returned the stream holds as many newline-terminated lines as calls
\* passed, on the one-write path and on the two-write path alike.
SameCall(a, b) == a.t = b.t /\ a.k = b.k

C5_WholeLines ==
    /\ \A i \in 1 .. (Len(out) - 1) : out[i].b # NL => SameCall(out[i], out[i + 1])
    /\ (\A t \in Threads : th[t].pc = "idle")
       => /\ Cardinality({i \in 1 .. Len(out) : out[i].b = NL}) = passed
          /\ out = <<>> \/ out[Len(out)].b = NL
          /\ \A t \in Threads :
                th[t].op \in GatedOps \cup HandleOps /\ BytesOf(out, t, th[t].k) # <<>>
                => BytesOf(out, t, th[t].k) = Record(th[t].op, th[t].lvl)

\* A thread waits for the mutex while another holds it between its payload
\* and its newline.
C5_Witness ==
    \E a, b \in Threads :
        /\ th[a].pc = "write"
        /\ Len(th[a].todo) = 1
        /\ th[a].op \in GatedOps \ {"Log"}
        /\ th[b].pc = "lock"
        /\ mu = a

\* A call of thread t has returned to its caller
Returned(t) == th[t].pc = "idle" /\ th[t].k >= 1

\* C12: a SetLevel call with a target outside TRACE..ERROR has, when it
\* returns, left the threshold at INFO and written exactly the diagnostic
\* line, whatever the threshold was; the threshold is within TRACE..ERROR in
\* every state.
C12_InvalidTargetClampedAndReported ==
    /\ level \in ValidLevels
    /\ \A t \in Threads :
          (Returned(t) /\ th[t].op = "SetLevel" /\ th[t].arg \notin ValidLevels)
          => /\ level = INFO
             /\ BytesOf(out, t, th[t].k) = Diagnostic \o <<NL>>

\* The second call, SetLevel with a target below TRACE, has returned after
\* the first call wrote nothing.
C12_Witness ==
    /\ Returned(1)
    /\ th[1].op = "SetLevel"
    /\ th[1].k = 2
    /\ th[1].arg < TRACE
    /\ BytesOf(out, 1, 1) = <<>>
    /\ BytesOf(out, 1, 2) # <<>>

\* C13: whenever no SetLevel call is under way, the handle and the
\* conditional handle of each level are active exactly when the level is at
\* or above the threshold; a call through an active handle (with a true
\* condition, for a conditional one) has written its line when it returns,
\* a call through an inert one nothing.
C13_TableMatchesThreshold ==
    /\ (\A t \in Threads : th[t].op = "SetLevel" => th[t].pc = "idle")
       => \A l \in ValidLevels :
             /\ handles[l] = (l >= level)
             /\ handleIfs[l] = (l >= level)
    /\ \A t \in Threads :
          (Returned(t) /\ th[t].op \in HandleOps)
          => BytesOf(out, t, th[t].k) =
                IF th[t].lvl >= level /\ th[t].arg = 1
                THEN Record(th[t].op, th[t].lvl)
                ELSE <<>>

\* After a SetLevel call, a call through the handle of exactly the new
\* threshold has returned.
C13_Witness ==
    /\ Returned(1)
    /\ th[1].op = "Handle"
    /\ th[1].k = 2
    /\ level # INFO
    /\ th[1].lvl = level
    /\ BytesOf(out, 1, 2) # <<>>

\* The call of thread t is Fatal or an Assert whose condition is false
Fails(t) == th[t].op \in FatalOps /\ th[t].arg = 0

\* C16: Fatal and a failed Assert never return; once the process has
\* terminated, with status 2, their whole line has been handed to the
\* logger's writer and the mutex is free; an Assert whose condition is true
\* returns with nothing written and the process running.
C16_FatalWritesThenExits ==
    \A t \in Threads :
        /\ Fails(t) => th[t].pc \in {"lock", "write", "exit", "exited"}
        /\ (Fails(t) /\ th[t].pc \in {"exit", "exited"})
           => /\ BytesOf(out, t, th[t].k) = StackInfo \o <<NL>>
              /\ mu = 0
        /\ (Fails(t) /\ status # "running")
           => (status = "exit2" /\ th[t].pc = "exited")
        /\ (th[t].op = "Assert" /\ th[t].arg = 1)
           => /\ th[t].pc = "idle"
              /\ BytesOf(out, t, th[t].k) = <<>>
              /\ status = "running"

\* The process has terminated from a failed Assert made while the threshold
\* was ERROR.
C16_Witness ==
    /\ status = "exit2"
    /\ th[1].op = "Assert"
    /\ th[1].k = 2
    /\ level = ERROR
    /\ BytesOf(out, 1, 2) = StackInfo \o <<NL>>

\* C17: no call of Log, Println, Logf, Output, Outputf, Json or Dump, at any
\* level value, faults the process, and the process terminates only from
\* Fatal or a failed Assert.
C17_OnlyFatalTerminates ==
    /\ status # "panic"
    /\ \A t \in Threads : th[t].op \in GatedOps => th[t].pc # "panic"
    /\ status = "exit2" => \E t \in Threads : Fails(t)

(***************************************************************************)
(* Properties of the Logger writing to its file sink                       *)
(***************************************************************************)
\* Threads between l.Lock() and l.Unlock()
Inside == {t \in Threads : th[t].pc = "write"}

\* C19: while the Logger writes to its file sink, at most one thread is
\* between Lock and Unlock, and it holds the mutex; every step that changes
\* the size counter or the file handle, or makes a Write call on the sink,
\* is a writer.Write of that thread; and no step of the retention task
\* changes the size counter, the file handle or the mutex.
C19_SinkWritesUnderMutex ==
    [][ writer = "file"
        => /\ Cardinality(Inside') <= 1
           /\ \A t \in Inside' : mu' = t
           /\ (size' # size \/ file' # file \/ IsWriteStep)
              => /\ mu \in Inside
                 /\ th'[mu].todo = Tail(th[mu].todo)
                 /\ \A u \in Threads \ {mu} : th'[u] = th[u]
           /\ sw' # sw => (size' = size /\ file' = file /\ mu' = mu) ]_vars

\* A thread waits for the mutex while the holder is between the two Write
\* calls it makes on the sink and the retention task is in its sweep.
C19_Witness ==
    \E a, b \in Threads :
        /\ writer = "file"
        /\ mu = a
        /\ th[a].pc = "write"
        /\ Len(th[a].todo) = 1
        /\ hist.nwrites >= 1
        /\ th[b].pc = "lock"
        /\ sw.pc = "scan"

\* C20: no thread asks for the mutex while it holds it; the holder can
\* always take its next step (its write, rotation and signal included, or
\* its Unlock); and every thread that holds the mutex releases it.
C20_NoDeadlock ==
    /\ [](\A t \in Threads : th[t].pc = "lock" => mu # t)
    /\ [](\A t \in Threads :
            th[t].pc = "write" => ENABLED (StderrWrite(t) \/ SinkWrite(t) \/ Unlock(t)))
    /\ \A t \in Threads : (mu = t) ~> (mu # t)

\* A SetLevel call with an invalid target holds the mutex for its
\* diagnostic while another thread waits for it and a signal for the
\* retention task is already queued.
C20_Witness ==
    \E a, b \in Threads :
        /\ writer = "file"
        /\ mu = a
        /\ th[a].op = "SetLevel"
        /\ th[a].pc = "write"
        /\ th[b].pc = "lock"
        /\ ch.len = ChanCap

(***************************************************************************)
(* Properties of value formatting                                          *)
(***************************************************************************)
Chr(str) == {str[i] : i \in 1 .. Len(str)}

\* Printable ASCII characters: 0x20 .. 0x7E
Printable == 32 .. TILDE

\* C18 as stated: a string with '=', a control character or a non-printable
\* byte is returned quoted; a string of printable ASCII characters without
\* '=' is returned as it is.
C18_QuotedIffUnsafe ==
    fmt.done
    => /\ (EQUALS \in Chr(fmt.s) \/ ~(Chr(fmt.s) \subseteq Printable))
          => fmt.ret = Quote(fmt.s)
       /\ (Chr(fmt.s) \subseteq Printable \ {EQUALS}) => fmt.ret = fmt.s

\* C18, amended: a string with a character at or below '"' (control
\* characters, space, '!', '"'), above '~', or '=' is returned quoted, which
\* differs from the string; a string of characters from '#' to '~' without
\* '=' is returned as it is.
C18_QuotedIffAtOrBelowQuote ==
    fmt.done
    => /\ (\E r \in Chr(fmt.s) : r <= DQUOTE \/ r > TILDE \/ r = EQUALS)
          => (fmt.ret = Quote(fmt.s) /\ fmt.ret # fmt.s)
       /\ (Chr(fmt.s) \subseteq ((DQUOTE + 1) .. TILDE) \ {EQUALS}) => fmt.ret = fmt.s

\* escapeString has returned the quoted form of a printable string whose
\* only character at or below '"' is a space.
C18_Witness ==
    /\ fmt.done
    /\ fmt.s = <<97, 32>>
    /\ fmt.ret = <<DQUOTE, 97, 32, DQUOTE>>

(***************************************************************************)
(* The retention task and rotation: wake-ups, order, names                 *)
(***************************************************************************)
\* C21: no wake-up is lost.  On a sink with a retention channel, whenever a
\* rotation has renamed the live file and no directory listing has been read
\* since, the retention task eventually reads one, also when the rotation's
\* own send found the channel full and was dropped.
C21_RenameIsEventuallyListed ==
    (ch.made /\ hist.unswept) ~> ~hist.unswept

\* A rotation renamed the live file while the task had not yet taken the
\* signal that was already in the channel.
C21_Witness ==
    /\ ch.made /\ hist.unswept /\ hist.lastW.renamed
    /\ ch.len = ChanCap /\ sw.pc = "wait"
    /\ hist.nwrites = MaxWrites

\* The rotated files a sweep has already visited: those after position idx
\* of its listing.
LaterRotated == { sw.list[i] : i \in { j \in (sw.idx + 1) .. Len(sw.list) :
                                         sw.list[j] \in Stamps } }

\* C22: in a directory whose matching files are the live file and this
\* sink's rotated files, listed in name order, a sweep removes a rotated file
\* exactly when at least MaxFiles rotated files come after it in the
\* listing, and every rotated file after it in the listing has a later
\* timestamp suffix: the last MaxFiles rotated files are kept, all earlier
\* ones removed.
C22_SweepKeepsLastRotated ==
    [][ (IsSweepStep /\ sw.list[sw.idx] \in Stamps /\ sw.list[sw.idx] \in DOMAIN dir)
        => LET name == sw.list[sw.idx]
           IN  /\ (name \notin DOMAIN dir') <=> (Cardinality(LaterRotated) >= cfg.MaxFiles)
               /\ \A k \in LaterRotated : name < k ]_vars

\* A sweep has removed a rotated file and kept one with a later suffix.
C22_Witness ==
    /\ sw.pc = "scan"
    /\ \E r \in LaterRotated, k \in LaterRotated :
          r < k /\ r \notin DOMAIN dir /\ k \in DOMAIN dir

(***************************************************************************)
(* The size counter, rotated data, records, recovery                       *)
(***************************************************************************)
\* C23: on a sink with a size bound, once Init has returned and after every
\* Write, w.size is the byte length of the file at the live path, also when
\* that file held data before the sink was opened.
C23_SizeIsLiveFileLength ==
    (phase = "ready" /\ IsPositive(maxSize) /\ Base \in DOMAIN dir)
    => size = FileSize(dir[Base])

\* The chunks of log data held by the live file and the rotated files of d
ChunksIn(d) ==
    UNION { { d[n][i] : i \in 1 .. Len(d[n]) } : n \in { x \in DOMAIN d : HasPrefix(x) } }

\* C24: with retention disabled (MaxFiles = 0) no Write loses log data: a
\* rotation renames the live file to a name that no file has yet, every
\* chunk the log files held before the Write is still in one of them after
\* it, and so are the bytes the Write reports as written, also when two
\* rotations read the same second from the clock.
C24_RotationKeepsAllData ==
    [][ (IsWriteStep /\ cfg.MaxFiles = 0)
        => /\ hist'.lastW.renamed => RotatedName(now') \notin DOMAIN dir
           /\ ChunksIn(dir) \subseteq ChunksIn(dir')
           /\ hist'.lastW.n > 0
              => Chunk(hist'.nwrites, hist'.lastW.n) \in ChunksIn(dir') ]_vars

\* C25: no record is split by a rotation.  When a call of Output, Outputf,
\* Println, Logf, Json or Dump on the size-bounded file sink writes the
\* newline that ends its record, that Write does not rotate, and when both
\* Writes succeeded the payload and the newline are the last two chunks of
\* the live file.
C25_RecordInOneFile ==
    [][ \A t \in Threads :
          ( /\ IsWriteStep
            /\ th[t].pc = "write" /\ th[t].op \in RecordOps
            /\ th[t].todo = <<<<NL>>>> /\ th'[t].todo = <<>> )
          => /\ ~hist'.lastW.rotated
             /\ (hist.lastW.n > 0 /\ hist'.lastW.n > 0)
                => LET f == dir'[Base]
                   IN  /\ Len(f) >= 2
                       /\ f[Len(f) - 1].id = hist.nwrites
                       /\ f[Len(f)].id = hist'.nwrites ]_vars

\* C26: the retention sweep removes only files that a rotation produced: no
\* step of the sweep removes a file whose name is not the base name followed
\* by a timestamp, whether or not the name starts with the base name.
C26_SweepRemovesOnlyRotated ==
    [][ IsSweepStep
        => \A name \in (DOMAIN dir) \ Stamps : name \in DOMAIN dir' ]_vars

\* C27: the sink recovers from a failed rotation.  A Write that follows a
\* Write whose rotation could not reopen the file, and during which the
\* operating system grants every open, leaves an open file and returns no
\* error, whatever its length.
C27_RecoversAfterFailedRotation ==
    [][ (IsWriteStep /\ hist.lastW.rotErr /\ hist'.lastW.openOk)
        => (file' = "open" /\ ~hist'.lastW.err) ]_vars

====
